---- MODULE Spec2Model ----
(***************************************************************************)
(* kachery_client feeds: the client-side Feed / Subfeed objects of         *)
(* kachery_client/_feeds.py, driven against a daemon that keeps one        *)
(* append-only log per subfeed hash.                                       *)
(*                                                                         *)
(* Messages are numbered in the order they are appended (message k is the  *)
(* k-th message ever appended), so order, gaps and repetitions are         *)
(* visible in every list of messages.  The client never looks inside a     *)
(* message.                                                                *)
(***************************************************************************)
EXTENDS Integers, Sequences, FiniteSets, TLC

\* ---------------------------------------------------------------- bounds
\* messages appended over a whole behaviour
MaxMsgs == 2
\* longest message list handed to one append_messages call
MaxBatch == 2
\* largest position given to load_subfeed(position=...) or set_position
MaxPos == 2
\* longest buffer (custom_iterator._messages) an iterator is let grow to
MaxBuf == 2
\* largest max_num_messages given to get_next_messages
MaxNum == 1
\* createFeed requests sent over a whole behaviour
MaxFeeds == 2

\* ------------------------------------------------------------ addressing
\* A subfeed name: the string "~" + text when tilde, else the string text.
NameEvents == [tilde |-> FALSE, text |-> "events"]
NameLiteral == [tilde |-> TRUE, text |-> "d0941e68da8f38151ff86a61fc59f7c5cf9fcaa2"]
Names == {NameEvents, NameLiteral}

\* hashlib.sha1(txt.encode('utf-8')).hexdigest()
sha1_of_string(txt) ==
    CASE txt = "events" -> "82d50d9042decb175894924272dd3b5a14cd3716"
      [] txt = "other" -> "d0941e68da8f38151ff86a61fc59f7c5cf9fcaa2"
      [] OTHER -> "da39a3ee5e6b4b0d3255bfef95601890afd80709"

subfeed_hash(subfeed_name) ==
    IF subfeed_name.tilde THEN subfeed_name.text
    ELSE sha1_of_string(subfeed_name.text)

Hashes == {subfeed_hash(n) : n \in Names}

\* ----------------------------------------------------------------- state
VARIABLES
    daemonLog,        \* daemon: subfeed hash -> the messages of that subfeed
    daemonWriteable,  \* daemon: what getFeedInfo reports as isWriteable
    appended,         \* number of messages appended so far (message numbering)
    deleted,          \* the daemon has served a deleteFeed for the feed
    feed,             \* the live Feed object
    snap,             \* the snapshot Feed object
    job,              \* a create_snapshot call in progress
    subfeed,          \* the Subfeed objects
    iter,             \* the custom_iterator objects
    naming,           \* the Naming Registry and the outcome of the last _load_feed
    watch,            \* a _watch_for_new_messages call and its round trip
    task,             \* the OutgoingTaskRequest object and the outcome of its last call
    last              \* the outcome of the operation that ran last

vars == <<daemonLog, daemonWriteable, appended, deleted, feed, snap, job,
          subfeed, iter, naming, watch, task, last>>

SubfeedIds == {"A", "B"}
IterIds == {"i"}
\* the Subfeed object whose message_stream is called
Streamer == "A"
NoName == [tilde |-> FALSE, text |-> ""]
NoSubfeed == [loaded |-> FALSE, feed |-> "none", name |-> NoName, position |-> 0,
              moved |-> "none"]
NoIter == [made |-> FALSE, parent |-> "A", messages |-> <<>>,
           relative_position |-> 0, pc |-> "idle", start |-> 0]
EmptyLogs == [h \in Hashes |-> <<>>]
NoJob == [active |-> FALSE, todo |-> <<>>, subfeeds |-> <<>>, atFetch |-> EmptyLogs]
NoSnap == [made |-> FALSE, snapshot_object |-> [subfeeds |-> <<>>],
           atFetch |-> EmptyLogs]

\* The feed names looked up in the Naming Registry
FeedNames == {"a", "b"}
\* Python's None, and the k-th feed id the daemon hands out
None == <<>>
FeedIdOf(k) == <<"F", k>>
\* What _load_feed gives back: the Feed it returned (feed_id, None when it
\* raised), whether it raised, and the requests it sent, in order; name is the
\* feed name it was called with ("" for a feed:// URI)
NoLoad == [name |-> "", feed_id |-> None, raised |-> FALSE, requests |-> <<>>]
\* The registry with no name recorded and the daemon with no feed created;
\* creates and failed count, per name, the createFeed requests sent and
\* whether a _load_feed(create=True) of the name has raised (bookkeeping, not
\* in the code); gone holds the feed ids the daemon has deleted
NoNaming == [registry |-> [n \in FeedNames |-> None],
             feeds |-> 0,
             gone |-> {},
             creates |-> [n \in FeedNames |-> 0],
             failed |-> [n \in FeedNames |-> FALSE],
             out |-> NoLoad]

\* The wait_msec values given to _watch_for_new_messages: no wait, and
\* get_next_messages' default
WaitMsecs == {0, 10}
\* No call of _watch_for_new_messages yet.  pc is "sent" while the request is
\* with the daemon; wait_msec is the argument of the call and request what was
\* sent; elapsed says that waitMsec has passed since; out is what the call
\* returned (the response's messages) or that it raised.
NoWatch == [pc |-> "idle", wait_msec |-> 0,
            request |-> [subfeedWatches |-> <<>>, waitMsec |-> 0, maxNumMessages |-> 0],
            elapsed |-> FALSE,
            out |-> [messages |-> <<>>, raised |-> FALSE]]

\* Python's None among the string values of a task's fields and results
NoneStr == "None"
\* The task statuses: two that are not final, and the final ones
TaskStatuses == {"waiting", "running", "finished", "error"}
\* The task function types wait() knows, and one it does not
TaskFunctionTypes == {"pure-calculation", "query", "action", "other"}
\* The responses to requestTask and waitForTaskResult: one that reports
\* failure, of which nothing else is read, and the ones that report success; a
\* field the response leaves out is None (x.get(..., None))
Responses ==
    {[success |-> FALSE, status |-> "error", taskResultUrl |-> NoneStr,
      errorMessage |-> "e", queryResult |-> NoneStr]}
    \cup [success : {TRUE},
          status : TaskStatuses,
          taskResultUrl : {NoneStr, "url"},
          errorMessage : {NoneStr, "e"},
          queryResult : {NoneStr, "q"}]
\* What _http_get_json(task_result_url) does: it raises, or returns the JSON
\* value stored there (null, an empty value, or a non-empty one)
Gets == {[raised |-> TRUE, value |-> NoneStr]}
        \cup [raised : {FALSE}, value : {NoneStr, "", "r"}]
\* Python's truth test on these values
Truthy(v) == v # NoneStr /\ v # ""
\* What a call returned (ret), whether it raised, and the requests it sent
NoReturn == [ret |-> NoneStr, raised |-> FALSE, requests |-> <<>>]
Raise(requests) == [NoReturn EXCEPT !.raised = TRUE, !.requests = requests]
\* No OutgoingTaskRequest object yet
NoTask == [made |-> FALSE,
           task_function_type |-> "action",
           status |-> "waiting",
           task_result_url |-> NoneStr,
           error_message |-> NoneStr,
           query_result |-> NoneStr,
           downloaded_result |-> NoneStr,
           out |-> NoReturn]

\* What get_next_message returns: Python's None (is_none), or a message
NoMessage == [is_none |-> TRUE, message |-> 0]

\* The outcome of an operation: the messages it fetched and returned (ret),
\* the number it returned (num), the message or None it returned (one, of
\* get_next_message), whether it raised an exception, whether it signalled
\* end-of-sequence (eos, StopIteration), and how many Transport Port requests
\* it sent (net).
Out ==
    [ret |-> <<>>, num |-> 0, one |-> NoMessage, raised |-> FALSE, eos |-> FALSE,
     net |-> 0]

\* Python's seq[from:to]
Slice(seq, from, to) ==
    LET hi == IF to < Len(seq) THEN to ELSE Len(seq)
    IN  IF from >= hi THEN <<>> ELSE SubSeq(seq, from + 1, hi)

\* The sequences without repetition over Names (create_snapshot's subfeed_names)
NameLists ==
    {<<>>} \cup {<<n>> : n \in Names}
           \cup {l \in Names \X Names : l[1] # l[2]}

\* ---------------------------------------------------------------- daemon
\* watchForNewMessages: for every watch, the messages of the log from the
\* watch's position on, at most maxNumMessages of them when that is positive;
\* a key is present in the response only when it has messages.
DaemonWatchNew(w, maxNumMessages) ==
    LET log == daemonLog[w.subfeedHash]
        all == Slice(log, w.position, Len(log))
    IN  IF maxNumMessages > 0 THEN Slice(all, 0, maxNumMessages) ELSE all

DaemonWatchForNewMessages(subfeedWatches, maxNumMessages) ==
    LET keys == {k \in DOMAIN subfeedWatches :
                    DaemonWatchNew(subfeedWatches[k], maxNumMessages) # <<>>}
    IN  [k \in keys |-> DaemonWatchNew(subfeedWatches[k], maxNumMessages)]

\* appendMessages: the messages go to the end of the subfeed's log
DaemonAppendMessages(subfeedHash, messages) ==
    [daemonLog EXCEPT ![subfeedHash] = @ \o messages]

\* getNumLocalMessages
DaemonNumLocalMessages(subfeedHash) == Len(daemonLog[subfeedHash])

\* The success flag of a response: once the daemon has served a deleteFeed,
\* every later request about the feed, from any process, gets success = false.
DaemonSuccess(ok) == ok => ~deleted

\* The n messages an append_messages call hands over: the next n numbers.
NewMessages(n) == [k \in 1..n |-> appended + k]

\* ------------------------------------------------------- snapshot blobs
\* A content-addressed blob: the URI is determined by the content.
store_json(obj) == [scheme |-> "sha1", content |-> obj]
load_json(uri) == uri.content

\* ------------------------------------------------------------- Feed
\* Feed.is_snapshot / Feed.is_writeable of the Feed object a Subfeed holds
\* (sf is a Subfeed object's record; sf.feed is "live" or "snap")
is_snapshot(sf) == sf.feed = "snap"

\* mutant: a snapshot Feed constructed with _is_writeable = True
is_writeable_snapshot_too(sf) == IF sf.feed = "live" THEN feed.is_writeable ELSE TRUE

\* mutant: isWriteable asked of the daemon at every use instead of kept
is_writeable_unresolved(sf) == IF sf.feed = "live" THEN daemonWriteable ELSE FALSE

is_writeable(sf) == IF sf.feed = "live" THEN feed.is_writeable ELSE FALSE

\* A Subfeed object as Subfeed.__init__ leaves it
NewSubfeed(f, subfeed_name, position) ==
    [loaded |-> TRUE, feed |-> f, name |-> subfeed_name, position |-> position,
     moved |-> "none"]

\* The number of messages of the stream a Subfeed reads
StreamLen(sf) ==
    LET h == subfeed_hash(sf.name)
    IN  IF sf.feed = "snap"
        THEN IF h \in DOMAIN snap.snapshot_object.subfeeds
             THEN Len(snap.snapshot_object.subfeeds[h].messages) ELSE 0
        ELSE Len(daemonLog[h])

\* A thread is inside custom_iterator.__next__ of an iterator of Subfeed s
Busy(s) == \E i \in IterIds : iter[i].made /\ iter[i].parent = s /\ iter[i].pc = "sleeping"

\* ------------------------------------------------------------- Subfeed
\* mutant: max_num_messages not forwarded (maxNumMessages left at 0)
watch_for_new_messages_uncapped(subfeed_watches, max_num_messages) ==
    LET subfeed_watches2 ==
            [key \in DOMAIN subfeed_watches |->
                [feedId |-> subfeed_watches[key].feedId,
                 subfeedHash |->
                    IF "subfeedHash" \in DOMAIN subfeed_watches[key]
                    THEN subfeed_watches[key].subfeedHash
                    ELSE subfeed_hash(subfeed_watches[key].subfeedName),
                 position |-> subfeed_watches[key].position]]
    IN  DaemonWatchForNewMessages(subfeed_watches2, 0)

\* _watch_for_new_messages: the request carries each watch with its subfeed
\* hash (derived from the name when the watch gives none) and the message cap;
\* the value is the response's messages.
watch_for_new_messages(subfeed_watches, max_num_messages) ==
    LET subfeed_watches2 ==
            [key \in DOMAIN subfeed_watches |->
                [feedId |-> subfeed_watches[key].feedId,
                 subfeedHash |->
                    IF "subfeedHash" \in DOMAIN subfeed_watches[key]
                    THEN subfeed_watches[key].subfeedHash
                    ELSE subfeed_hash(subfeed_watches[key].subfeedName),
                 position |-> subfeed_watches[key].position]]
    IN  DaemonWatchForNewMessages(subfeed_watches2, max_num_messages)

\* mutant: the snapshot read through to the live subfeed
get_snapshot_messages_live(sf) == daemonLog[subfeed_hash(sf.name)]

\* Subfeed._get_snapshot_messages
get_snapshot_messages(sf) ==
    LET h == subfeed_hash(sf.name)
    IN  IF h \in DOMAIN snap.snapshot_object.subfeeds
        THEN snap.snapshot_object.subfeeds[h].messages
        ELSE <<>>

\* What get_next_messages returns on a live feed when the daemon answers
live_next_messages(sf, max_num_messages) ==
    LET subfeed_watches ==
            [watch |-> [feedId |-> "F", subfeedHash |-> subfeed_hash(sf.name),
                        position |-> sf.position]]
        x == watch_for_new_messages(subfeed_watches, max_num_messages)
    IN  IF "watch" \in DOMAIN x THEN x["watch"] ELSE <<>>

\* mutant: the snapshot slice taken one message too late
snapshot_next_messages_skip(sf, max_num_messages) ==
    LET messages == get_snapshot_messages(sf)
        position == sf.position + 1
    IN  IF max_num_messages > 0
        THEN Slice(messages, position, position + max_num_messages)
        ELSE Slice(messages, position, Len(messages))

\* mutant: max_num_messages ignored on a snapshot
snapshot_next_messages_uncapped(sf, max_num_messages) ==
    LET messages == get_snapshot_messages(sf)
        position == sf.position
    IN  Slice(messages, position, Len(messages))

\* What get_next_messages returns on a snapshot feed
snapshot_next_messages(sf, max_num_messages) ==
    LET messages == get_snapshot_messages(sf)
        position == sf.position
    IN  IF max_num_messages > 0
        THEN Slice(messages, position, position + max_num_messages)
        ELSE Slice(messages, position, Len(messages))

next_messages(sf, max_num_messages) ==
    IF ~is_snapshot(sf) THEN live_next_messages(sf, max_num_messages)
    ELSE snapshot_next_messages(sf, max_num_messages)

\* mutant: advance_position ignored, the cursor stays
advanced_never(position, y, advance_position) == position

\* mutant: the cursor advanced one too far
advanced_off_by_one(position, y, advance_position) ==
    IF advance_position THEN position + Len(y) + 1 ELSE position

\* mutant: the cursor set to the number of messages returned, not advanced by it
advanced_assign(position, y, advance_position) ==
    IF advance_position THEN Len(y) ELSE position

\* The position get_next_messages leaves
advanced(position, y, advance_position) ==
    IF advance_position THEN position + Len(y) ELSE position

\* Bookkeeping, not in the code: what has moved a Subfeed's cursor so far.
\* "none"; "fetch": only get_next_messages / get_next_message; "iter": only
\* the iterator's __next__; "free": a position given from outside (set_position,
\* or load_subfeed with a position beyond the stream's end) or both of them.
MovedBy(moved, how) ==
    IF moved = "none" \/ moved = how THEN how ELSE "free"

Moved(sf, position, how) ==
    IF position # sf.position THEN MovedBy(sf.moved, how) ELSE sf.moved

\* --------------------------------------------------------------- actions
Init ==
    /\ daemonLog = EmptyLogs
    /\ daemonWriteable \in BOOLEAN
    /\ appended = 0
    /\ deleted = FALSE
    /\ feed = [made |-> FALSE, is_writeable |-> FALSE]
    /\ snap = NoSnap
    /\ job = NoJob
    /\ subfeed = [s \in SubfeedIds |-> NoSubfeed]
    /\ iter = [i \in IterIds |-> NoIter]
    /\ naming = NoNaming
    /\ watch = NoWatch
    /\ task = NoTask
    /\ last = Out

\* Feed('feed://F'): Feed.__init__ and Feed._initialize (getFeedInfo)
Feed_init(ok) ==
    /\ ~feed.made
    /\ feed' = IF ok THEN [made |-> TRUE, is_writeable |-> daemonWriteable] ELSE feed
    /\ last' = [Out EXCEPT !.raised = ~ok, !.net = 1]
    /\ UNCHANGED <<task, daemonLog, daemonWriteable, naming, watch, appended, deleted, snap, job,
                   subfeed, iter>>

\* Feed.load_subfeed(subfeed_name, position=position) on Feed object f
load_subfeed(f, s, subfeed_name, position) ==
    /\ IF f = "live" THEN feed.made ELSE snap.made
    /\ ~subfeed[s].loaded
    /\ LET sf == NewSubfeed(f, subfeed_name, position)
       IN  subfeed' = [subfeed EXCEPT ![s] =
                [sf EXCEPT !.moved = IF position > StreamLen(sf) THEN "free" ELSE "none"]]
    /\ last' = Out
    /\ UNCHANGED <<task, daemonLog, daemonWriteable, naming, watch, appended, deleted, feed, snap, job, iter>>

\* Feed.delete on the live Feed object: _delete_feed('feed://F') (deleteFeed).
\* The Feed object itself is left as it was.  The methods of the Feed object
\* are called one after the other: not while its create_snapshot is running.
delete(ok) ==
    /\ feed.made
    /\ ~job.active
    /\ DaemonSuccess(ok)
    /\ daemonLog' = IF ok THEN EmptyLogs ELSE daemonLog
    /\ deleted' = (deleted \/ ok)
    /\ last' = [Out EXCEPT !.raised = ~ok, !.net = 1]
    /\ UNCHANGED <<task, daemonWriteable, naming, watch, appended, feed, snap, job, subfeed, iter>>

\* Subfeed.set_position
set_position(s, position) ==
    /\ subfeed[s].loaded
    /\ ~Busy(s)
    /\ subfeed' = [subfeed EXCEPT ![s].position = position,
                                  ![s].moved = "free"]
    /\ last' = Out
    /\ UNCHANGED <<task, daemonLog, daemonWriteable, naming, watch, appended, deleted, feed, snap, job, iter>>

\* Subfeed.get_num_local_messages
get_num_local_messages(s, ok) ==
    /\ subfeed[s].loaded
    /\ ~Busy(s)
    /\ is_snapshot(subfeed[s]) => ok
    /\ ~is_snapshot(subfeed[s]) => DaemonSuccess(ok)
    /\ last' =
         IF ~is_snapshot(subfeed[s])
         THEN [Out EXCEPT
                 !.net = 1, !.raised = ~ok,
                 !.num = IF ok THEN DaemonNumLocalMessages(subfeed_hash(subfeed[s].name))
                         ELSE 0]
         ELSE [Out EXCEPT
                 !.num = Len(get_snapshot_messages(subfeed[s]))]
    /\ UNCHANGED <<task, daemonLog, daemonWriteable, naming, watch, appended, deleted, feed, snap, job,
                   subfeed, iter>>

\* mutant: the cursor kept per stream (a class attribute), not per Subfeed object
get_next_messages_shared_cursor(s, max_num_messages, advance_position, ok) ==
    LET sf == subfeed[s]
        y == next_messages(sf, max_num_messages)
        position == advanced(sf.position, y, advance_position)
    IN  /\ sf.loaded
        /\ ~Busy(s)
        /\ is_snapshot(sf) => ok
        /\ ~is_snapshot(sf) => DaemonSuccess(ok)
        /\ subfeed' = IF ok
                      THEN [r \in SubfeedIds |->
                              IF subfeed[r].loaded /\ subfeed[r].feed = sf.feed
                                 /\ subfeed[r].name = sf.name
                              THEN [subfeed[r] EXCEPT !.position = position,
                                                      !.moved = Moved(subfeed[r], position, "fetch")]
                              ELSE subfeed[r]]
                      ELSE subfeed
        /\ last' = [Out EXCEPT
                      !.ret = IF ok THEN y ELSE <<>>,
                      !.raised = ~ok,
                      !.net = IF is_snapshot(sf) THEN 0 ELSE 1]
        /\ UNCHANGED <<task, daemonLog, daemonWriteable, naming, watch, appended, deleted, feed, snap, job, iter>>

\* mutant: a refused watch taken for an empty answer
get_next_messages_swallowing(s, max_num_messages, advance_position, ok) ==
    LET sf == subfeed[s]
        y == next_messages(sf, max_num_messages)
        position == advanced(sf.position, y, advance_position)
    IN  /\ sf.loaded
        /\ ~Busy(s)
        /\ is_snapshot(sf) => ok
        /\ ~is_snapshot(sf) => DaemonSuccess(ok)
        /\ subfeed' = IF ok THEN [subfeed EXCEPT ![s].position = position,
                                                 ![s].moved = Moved(sf, position, "fetch")]
                      ELSE subfeed
        /\ last' = [Out EXCEPT
                      !.ret = IF ok THEN y ELSE <<>>,
                      !.net = IF is_snapshot(sf) THEN 0 ELSE 1]
        /\ UNCHANGED <<task, daemonLog, daemonWriteable, naming, watch, appended, deleted, feed, snap, job, iter>>

\* Subfeed.get_next_messages
get_next_messages(s, max_num_messages, advance_position, ok) ==
    LET sf == subfeed[s]
        y == next_messages(sf, max_num_messages)
        position == advanced(sf.position, y, advance_position)
    IN  /\ sf.loaded
        /\ ~Busy(s)
        /\ is_snapshot(sf) => ok
        /\ ~is_snapshot(sf) => DaemonSuccess(ok)
        /\ subfeed' = IF ok THEN [subfeed EXCEPT ![s].position = position,
                                                 ![s].moved = Moved(sf, position, "fetch")]
                      ELSE subfeed
        /\ last' = [Out EXCEPT
                      !.ret = IF ok THEN y ELSE <<>>,
                      !.raised = ~ok,
                      !.net = IF is_snapshot(sf) THEN 0 ELSE 1]
        /\ UNCHANGED <<task, daemonLog, daemonWriteable, naming, watch, appended, deleted, feed, snap, job, iter>>

\* mutant: None returned whatever was fetched
message_or_none_dropped(messages) == NoMessage

\* Subfeed.get_next_message: what it makes of the list get_next_messages gave
message_or_none(messages) ==
    IF Len(messages) = 0 THEN NoMessage
    ELSE [is_none |-> FALSE, message |-> messages[1]]

\* Subfeed.get_next_message: get_next_messages(max_num_messages=1) and the
\* first message of its list, or None
get_next_message(s, advance_position, ok) ==
    LET sf == subfeed[s]
        messages == next_messages(sf, 1)
        position == advanced(sf.position, messages, advance_position)
    IN  /\ sf.loaded
        /\ ~Busy(s)
        /\ is_snapshot(sf) => ok
        /\ ~is_snapshot(sf) => DaemonSuccess(ok)
        /\ subfeed' = IF ok THEN [subfeed EXCEPT ![s].position = position,
                                                 ![s].moved = Moved(sf, position, "fetch")]
                      ELSE subfeed
        /\ last' = [Out EXCEPT
                      !.ret = IF ok THEN messages ELSE <<>>,
                      !.one = IF ok THEN message_or_none(messages) ELSE NoMessage,
                      !.raised = ~ok,
                      !.net = IF is_snapshot(sf) THEN 0 ELSE 1]
        /\ UNCHANGED <<task, daemonLog, daemonWriteable, naming, watch, appended, deleted, feed, snap, job, iter>>

\* mutant: the cursor moved past the messages appended
append_messages_advancing(s, n, ok) ==
    LET sf == subfeed[s]
        sent == is_writeable(sf)
    IN  /\ sf.loaded
        /\ ~Busy(s)
        /\ appended + n <= MaxMsgs
        /\ ~sent => ok
        /\ sent => DaemonSuccess(ok)
        /\ IF sent /\ ok
           THEN /\ daemonLog' = DaemonAppendMessages(subfeed_hash(sf.name), NewMessages(n))
                /\ appended' = appended + n
                /\ subfeed' = [subfeed EXCEPT ![s].position = @ + n]
           ELSE UNCHANGED <<daemonLog, appended, subfeed>>
        /\ last' = [Out EXCEPT
                      !.raised = ~sent \/ ~ok,
                      !.net = IF sent THEN 1 ELSE 0]
        /\ UNCHANGED <<task, daemonWriteable, naming, watch, deleted, feed, snap, job, iter>>

\* Subfeed.append_messages with a list of n messages (append_message: n = 1)
append_messages(s, n, ok) ==
    LET sf == subfeed[s]
        sent == is_writeable(sf)
    IN  /\ sf.loaded
        /\ ~Busy(s)
        /\ appended + n <= MaxMsgs
        /\ ~sent => ok
        /\ sent => DaemonSuccess(ok)
        /\ IF sent /\ ok
           THEN /\ daemonLog' = DaemonAppendMessages(subfeed_hash(sf.name), NewMessages(n))
                /\ appended' = appended + n
           ELSE UNCHANGED <<daemonLog, appended>>
        /\ last' = [Out EXCEPT
                      !.raised = ~sent \/ ~ok,
                      !.net = IF sent THEN 1 ELSE 0]
        /\ UNCHANGED <<task, daemonWriteable, naming, watch, deleted, feed, snap, job, subfeed, iter>>

\* ---------------------------------------------------------------- stream
\* mutant: _load_messages fetching with the default advance_position=True
load_messages_advancing == TRUE

\* The advance_position argument of custom_iterator._load_messages' fetch
load_messages_advance_position == FALSE

\* mutant: StopIteration on every exhausted buffer, snapshot or not
ends_when_exhausted_always(sf) == TRUE

\* custom_iterator.__next__ ends the sequence on an exhausted buffer
ends_when_exhausted(sf) == is_snapshot(sf)

\* Subfeed.message_stream: custom_iterator.__init__, with its first _load_messages
message_stream(s, i, ok) ==
    LET sf == subfeed[s]
        messages == next_messages(sf, 0)
        position == advanced(sf.position, messages, load_messages_advance_position)
    IN  /\ sf.loaded
        /\ ~Busy(s)
        /\ ~iter[i].made
        /\ is_snapshot(sf) => ok
        /\ ~is_snapshot(sf) => DaemonSuccess(ok)
        /\ Len(messages) <= MaxBuf
        /\ iter' = IF ok
                   THEN [iter EXCEPT ![i] =
                           [made |-> TRUE, parent |-> s, messages |-> messages,
                            relative_position |-> 0, pc |-> "idle",
                            start |-> sf.position]]
                   ELSE iter
        /\ subfeed' = IF ok THEN [subfeed EXCEPT ![s].position = position,
                                                 ![s].moved = Moved(sf, position, "iter")]
                      ELSE subfeed
        /\ last' = [Out EXCEPT
                      !.raised = ~ok,
                      !.net = IF is_snapshot(sf) THEN 0 ELSE 1]
        /\ UNCHANGED <<task, daemonLog, daemonWriteable, naming, watch, appended, deleted, feed, snap, job>>

\* One pass of custom_iterator.__next__: the loop's test, one _load_messages
\* when the buffer is exhausted, and then the yield, the StopIteration or the
\* sleep before the next pass.
NextPass(i, ok) ==
    LET it == iter[i]
        s == it.parent
        sf == subfeed[s]
        exhausted == it.relative_position >= Len(it.messages)
        polls == exhausted /\ ~is_snapshot(sf)
        loaded == IF exhausted THEN next_messages(sf, 0) ELSE <<>>
        messages == it.messages \o loaded
        position == IF exhausted
                    THEN advanced(sf.position, loaded, load_messages_advance_position)
                    ELSE sf.position
        yields == it.relative_position < Len(messages)
    IN  /\ it.made
        /\ ~polls => ok
        /\ polls => DaemonSuccess(ok)
        /\ Len(messages) <= MaxBuf
        /\ IF ~ok
           THEN /\ iter' = [iter EXCEPT ![i].pc = "idle"]
                /\ UNCHANGED subfeed
                /\ last' = [Out EXCEPT !.raised = TRUE, !.net = 1]
           ELSE IF yields
           THEN /\ iter' = [iter EXCEPT ![i].messages = messages,
                                        ![i].relative_position = @ + 1,
                                        ![i].pc = "idle"]
                /\ subfeed' = [subfeed EXCEPT ![s].position = position + 1,
                                              ![s].moved = MovedBy(@, "iter")]
                /\ last' = [Out EXCEPT
                              !.ret = <<messages[it.relative_position + 1]>>,
                              !.net = IF polls THEN 1 ELSE 0]
           ELSE /\ iter' = [iter EXCEPT ![i].messages = messages,
                                        ![i].pc = IF ends_when_exhausted(sf)
                                                  THEN "idle" ELSE "sleeping"]
                /\ subfeed' = [subfeed EXCEPT ![s].position = position,
                                              ![s].moved = Moved(sf, position, "iter")]
                /\ last' = [Out EXCEPT
                              !.eos = ends_when_exhausted(sf),
                              !.net = IF polls THEN 1 ELSE 0]
        /\ UNCHANGED <<task, daemonLog, daemonWriteable, naming, watch, appended, deleted, feed, snap, job>>

\* A call of custom_iterator.__next__
next_call(i, ok) == iter[i].pc = "idle" /\ NextPass(i, ok)

\* The pass after the sleep of a __next__ call that found nothing
next_retry(i, ok) == iter[i].pc = "sleeping" /\ NextPass(i, ok)

\* -------------------------------------------------------- create_snapshot
\* Feed.create_snapshot(subfeed_names) on the live Feed object: the call
create_snapshot_call(subfeed_names) ==
    /\ feed.made
    /\ ~snap.made
    /\ ~job.active
    /\ job' = [NoJob EXCEPT !.active = TRUE, !.todo = subfeed_names]
    /\ last' = Out
    /\ UNCHANGED <<task, daemonLog, daemonWriteable, naming, watch, appended, deleted, feed, snap,
                   subfeed, iter>>

\* mutant: the loop fetching with get_next_message, one message per subfeed
create_snapshot_fetch_one(ok) ==
    LET sf == NewSubfeed("live", Head(job.todo), 0)
        h == subfeed_hash(sf.name)
        messages == next_messages(sf, 1)
    IN  /\ job.active
        /\ job.todo # <<>>
        /\ DaemonSuccess(ok)
        /\ job' = IF ok
                  THEN [job EXCEPT
                          !.todo = Tail(@),
                          !.subfeeds = (h :> [subfeedHash |-> h, messages |-> messages]) @@ @,
                          !.atFetch = [@ EXCEPT ![h] = daemonLog[h]]]
                  ELSE NoJob
        /\ last' = [Out EXCEPT !.raised = ~ok, !.net = 1]
        /\ UNCHANGED <<task, daemonLog, daemonWriteable, naming, watch, appended, deleted, feed, snap,
                       subfeed, iter>>

\* mutant: the loop loading each subfeed at position 1
create_snapshot_fetch_from_one(ok) ==
    LET sf == NewSubfeed("live", Head(job.todo), 1)
        h == subfeed_hash(sf.name)
        messages == next_messages(sf, 0)
    IN  /\ job.active
        /\ job.todo # <<>>
        /\ DaemonSuccess(ok)
        /\ job' = IF ok
                  THEN [job EXCEPT
                          !.todo = Tail(@),
                          !.subfeeds = (h :> [subfeedHash |-> h, messages |-> messages]) @@ @,
                          !.atFetch = [@ EXCEPT ![h] = daemonLog[h]]]
                  ELSE NoJob
        /\ last' = [Out EXCEPT !.raised = ~ok, !.net = 1]
        /\ UNCHANGED <<task, daemonLog, daemonWriteable, naming, watch, appended, deleted, feed, snap,
                       subfeed, iter>>

\* One pass of create_snapshot's loop: load_subfeed(subfeed_name) and
\* get_next_messages(wait_msec=0) on it
create_snapshot_fetch(ok) ==
    LET sf == NewSubfeed("live", Head(job.todo), 0)
        h == subfeed_hash(sf.name)
        messages == next_messages(sf, 0)
    IN  /\ job.active
        /\ job.todo # <<>>
        /\ DaemonSuccess(ok)
        /\ job' = IF ok
                  THEN [job EXCEPT
                          !.todo = Tail(@),
                          !.subfeeds = (h :> [subfeedHash |-> h, messages |-> messages]) @@ @,
                          !.atFetch = [@ EXCEPT ![h] = daemonLog[h]]]
                  ELSE NoJob
        /\ last' = [Out EXCEPT !.raised = ~ok, !.net = 1]
        /\ UNCHANGED <<task, daemonLog, daemonWriteable, naming, watch, appended, deleted, feed, snap,
                       subfeed, iter>>

\* The end of create_snapshot: _store_json, and Feed(snapshot_uri) loading it
create_snapshot_store ==
    /\ job.active
    /\ job.todo = <<>>
    /\ snap' = [made |-> TRUE,
                snapshot_object |-> load_json(store_json([subfeeds |-> job.subfeeds])),
                atFetch |-> job.atFetch]
    /\ job' = NoJob
    /\ last' = Out
    /\ UNCHANGED <<task, daemonLog, daemonWriteable, naming, watch, appended, deleted, feed, subfeed, iter>>

\* append_messages by a Subfeed object of another process, on a writeable feed
other_append_messages(subfeed_name, n) ==
    /\ daemonWriteable
    /\ DaemonSuccess(TRUE)
    /\ appended + n <= MaxMsgs
    /\ daemonLog' = DaemonAppendMessages(subfeed_hash(subfeed_name), NewMessages(n))
    /\ appended' = appended + n
    /\ last' = [Out EXCEPT !.net = 1]
    /\ UNCHANGED <<task, daemonWriteable, naming, watch, deleted, feed, snap, job, subfeed, iter>>

\* The daemon gains or loses the means to write the feed: what getFeedInfo
\* reports as isWriteable changes
daemon_set_writeable(w) ==
    /\ w # daemonWriteable
    /\ daemonWriteable' = w
    /\ UNCHANGED <<task, daemonLog, naming, watch, appended, deleted, feed, snap, job, subfeed,
                   iter, last>>

\* ----------------------------------------------------------------- watch
\* The subfeed_watches given to _watch_for_new_messages: none, one watch by
\* subfeed name, and two watches of which one gives the subfeed hash
WatchSpecs ==
    {<<>>}
    \cup {[w1 |-> [feedId |-> "F", subfeedName |-> n, position |-> p]] :
            n \in Names, p \in 0..MaxPos}
    \cup {[w1 |-> [feedId |-> "F", subfeedName |-> NameEvents, position |-> p],
           w2 |-> [feedId |-> "F", subfeedHash |-> subfeed_hash(NameLiteral),
                   position |-> 0]] : p \in 0..MaxPos}

\* mutant: the request sent with get_next_messages' default wait
watch_request_default_wait(subfeed_watches, wait_msec, max_num_messages) ==
    [subfeedWatches |->
        [key \in DOMAIN subfeed_watches |->
            [feedId |-> subfeed_watches[key].feedId,
             subfeedHash |->
                IF "subfeedHash" \in DOMAIN subfeed_watches[key]
                THEN subfeed_watches[key].subfeedHash
                ELSE subfeed_hash(subfeed_watches[key].subfeedName),
             position |-> subfeed_watches[key].position]],
     waitMsec |-> wait_msec + 10,
     maxNumMessages |-> max_num_messages]

\* _watch_for_new_messages: the request it posts
watch_request(subfeed_watches, wait_msec, max_num_messages) ==
    [subfeedWatches |->
        [key \in DOMAIN subfeed_watches |->
            [feedId |-> subfeed_watches[key].feedId,
             subfeedHash |->
                IF "subfeedHash" \in DOMAIN subfeed_watches[key]
                THEN subfeed_watches[key].subfeedHash
                ELSE subfeed_hash(subfeed_watches[key].subfeedName),
             position |-> subfeed_watches[key].position]],
     waitMsec |-> wait_msec,
     maxNumMessages |-> max_num_messages]

\* _watch_for_new_messages(subfeed_watches, wait_msec=..., max_num_messages=...):
\* the request is posted
watch_call(subfeed_watches, wait_msec, max_num_messages) ==
    /\ watch.pc = "idle"
    /\ watch' = [NoWatch EXCEPT
                   !.pc = "sent",
                   !.wait_msec = wait_msec,
                   !.request = watch_request(subfeed_watches, wait_msec, max_num_messages)]
    /\ UNCHANGED <<task, daemonLog, daemonWriteable, naming, appended, deleted, feed, snap,
                   job, subfeed, iter, last>>

\* What the daemon would answer now to the request it holds
DaemonWatchAnswer ==
    DaemonWatchForNewMessages(watch.request.subfeedWatches, watch.request.maxNumMessages)

\* The daemon holds a request open while its waitMsec has not passed and no
\* watch of it has a new message
DaemonHolds ==
    /\ watch.request.waitMsec > 0
    /\ ~watch.elapsed
    /\ DOMAIN DaemonWatchAnswer = {}

\* The response arrives and _watch_for_new_messages returns its messages, or
\* raises when it is not marked successful
watch_return(ok) ==
    /\ watch.pc = "sent"
    /\ DaemonSuccess(ok)
    /\ ok => ~DaemonHolds
    /\ watch' = [watch EXCEPT
                   !.pc = "idle",
                   !.out = IF ok THEN [messages |-> DaemonWatchAnswer, raised |-> FALSE]
                           ELSE [messages |-> <<>>, raised |-> TRUE]]
    /\ UNCHANGED <<task, daemonLog, daemonWriteable, naming, appended, deleted, feed, snap,
                   job, subfeed, iter, last>>

\* waitMsec passes while the daemon holds the request
watch_timeout ==
    /\ watch.pc = "sent"
    /\ DaemonHolds
    /\ watch' = [watch EXCEPT !.elapsed = TRUE]
    /\ UNCHANGED <<task, daemonLog, daemonWriteable, naming, appended, deleted, feed, snap,
                   job, subfeed, iter, last>>

\* ---------------------------------------------------------------- naming
\* _mutables._get / _set on the key {type: feed_id_for_name, feed_name: n}
registry_get(feed_name) == naming.registry[feed_name]
registry_set(registry, feed_name, feed_id) == [registry EXCEPT ![feed_name] = feed_id]

\* mutant: the registry's answer ignored
missing_always(feed_id) == TRUE

\* _get_feed_id: the registry holds no feed id for the name
missing(feed_id) == feed_id = None

\* mutant: a missing name created whatever create says
creates_missing_always(create) == TRUE

\* _get_feed_id: a missing name is created
creates_missing(create) == create

\* _load_feed('feed://' + feed_id, create=create): Feed.__init__ with its
\* getFeedInfo, after the test of create
load_feed_uri(feed_id, create, ok) ==
    IF create THEN [NoLoad EXCEPT !.raised = TRUE]
    ELSE [NoLoad EXCEPT !.feed_id = IF ok THEN feed_id ELSE None,
                        !.raised = ~ok,
                        !.requests = <<"getFeedInfo">>]

\* r after the requests sent before it
After(requests, r) == [r EXCEPT !.requests = requests \o @]

\* _load_feed(feed_name, create=create) with a name: _get_feed_id, which calls
\* _create_feed when the name is missing and create is set, then
\* _load_feed('feed://' + feed_id).  okCreate, okInfo and ok are the success
\* flags of the createFeed response, of the getFeedInfo response inside
\* _create_feed and of the last getFeedInfo response.
load_feed_name(feed_name, create, okCreate, okInfo, ok) ==
    LET feed_id == registry_get(feed_name)
        new_id == FeedIdOf(naming.feeds + 1)
        asks == missing(feed_id) /\ creates_missing(create)
        made == asks /\ okCreate
        created == load_feed_uri(new_id, FALSE, okInfo)
        out == IF ~missing(feed_id) THEN load_feed_uri(feed_id, FALSE, ok)
               ELSE IF ~creates_missing(create) THEN [NoLoad EXCEPT !.raised = TRUE]
               ELSE IF ~okCreate
               THEN [NoLoad EXCEPT !.raised = TRUE, !.requests = <<"createFeed">>]
               ELSE IF created.raised THEN After(<<"createFeed">>, created)
               ELSE After(<<"createFeed">> \o created.requests,
                          load_feed_uri(created.feed_id, FALSE, ok))
    IN  /\ asks => naming.creates[feed_name] < MaxFeeds /\ naming.feeds < MaxFeeds
        /\ naming' =
              [registry |-> IF made THEN registry_set(naming.registry, feed_name, new_id)
                            ELSE naming.registry,
               feeds |-> IF made THEN naming.feeds + 1 ELSE naming.feeds,
               gone |-> naming.gone,
               creates |-> IF asks THEN [naming.creates EXCEPT ![feed_name] = @ + 1]
                           ELSE naming.creates,
               failed |-> [naming.failed EXCEPT ![feed_name] = @ \/ (create /\ out.raised)],
               out |-> [out EXCEPT !.name = feed_name]]
        /\ UNCHANGED <<task, daemonLog, daemonWriteable, watch, appended, deleted, feed, snap, job,
                       subfeed, iter, last>>

\* _load_feed('feed://' + feed_id, create=create) with the URI of a feed the
\* daemon has created
load_feed(k, create, ok) ==
    /\ k \in 1..naming.feeds
    /\ naming' = [naming EXCEPT !.out = load_feed_uri(FeedIdOf(k), create, ok)]
    /\ UNCHANGED <<task, daemonLog, daemonWriteable, watch, appended, deleted, feed, snap, job,
                   subfeed, iter, last>>

\* _delete_feed('feed://' + feed_id): the deleteFeed request and its answer
delete_feed_uri(feed_id, ok) ==
    [NoLoad EXCEPT !.raised = ~ok, !.requests = <<"deleteFeed">>]

\* _delete_feed('feed://' + feed_id) with the URI of a feed the daemon has
\* created
delete_feed(k, ok) ==
    /\ k \in 1..naming.feeds
    /\ naming' = [naming EXCEPT
                    !.gone = IF ok THEN @ \cup {FeedIdOf(k)} ELSE @,
                    !.out = delete_feed_uri(FeedIdOf(k), ok)]
    /\ UNCHANGED <<task, daemonLog, daemonWriteable, watch, appended, deleted, feed, snap, job,
                   subfeed, iter, last>>

\* mutant: the name's registry entry removed once the daemon has deleted the
\* feed
delete_feed_name_forgetting(feed_name, ok) ==
    LET feed_id == registry_get(feed_name)
        out == IF missing(feed_id) THEN [NoLoad EXCEPT !.raised = TRUE]
               ELSE delete_feed_uri(feed_id, ok)
        done == ~missing(feed_id) /\ ok
    IN  /\ naming' = [naming EXCEPT
                        !.registry = IF done THEN registry_set(@, feed_name, None) ELSE @,
                        !.gone = IF done THEN @ \cup {feed_id} ELSE @,
                        !.out = [out EXCEPT !.name = feed_name]]
        /\ UNCHANGED <<task, daemonLog, daemonWriteable, watch, appended, deleted, feed, snap, job,
                       subfeed, iter, last>>

\* _delete_feed(feed_name) with a name: _get_feed_id(feed_name, create=False),
\* which raises when the registry holds no feed id for the name, then
\* _delete_feed('feed://' + feed_id)
delete_feed_name(feed_name, ok) ==
    LET feed_id == registry_get(feed_name)
        out == IF missing(feed_id) THEN [NoLoad EXCEPT !.raised = TRUE]
               ELSE delete_feed_uri(feed_id, ok)
        done == ~missing(feed_id) /\ ok
    IN  /\ naming' = [naming EXCEPT
                        !.gone = IF done THEN @ \cup {feed_id} ELSE @,
                        !.out = [out EXCEPT !.name = feed_name]]
        /\ UNCHANGED <<task, daemonLog, daemonWriteable, watch, appended, deleted, feed, snap, job,
                       subfeed, iter, last>>

\* ------------------------------------------------------------------ tasks
\* request_task(task_function_type=..., ...): the requestTask request with
\* response x, and OutgoingTaskRequest.__init__
request_task(task_function_type, x) ==
    /\ ~task.made
    /\ task' = IF ~x.success
               THEN [task EXCEPT !.out = Raise(<<"requestTask">>)]
               ELSE [made |-> TRUE,
                     task_function_type |-> task_function_type,
                     status |-> x.status,
                     task_result_url |-> x.taskResultUrl,
                     error_message |-> x.errorMessage,
                     query_result |-> x.queryResult,
                     downloaded_result |-> NoneStr,
                     out |-> [NoReturn EXCEPT !.requests = <<"requestTask">>]]
    /\ UNCHANGED <<daemonLog, daemonWriteable, appended, deleted, feed, snap, job,
                   subfeed, iter, naming, watch, last>>

\* OutgoingTaskRequest.task_result on the object t, get being what
\* _http_get_json does if it is called: the object afterwards, with the outcome
\* in out
task_result(t, get) ==
    IF t.status # "finished" THEN [t EXCEPT !.out = Raise(<<>>)]
    ELSE IF Truthy(t.downloaded_result)
    THEN [t EXCEPT !.out = [NoReturn EXCEPT !.ret = t.downloaded_result]]
    ELSE IF ~Truthy(t.task_result_url) THEN [t EXCEPT !.out = Raise(<<>>)]
    ELSE IF get.raised THEN [t EXCEPT !.out = Raise(<<"GET">>)]
    ELSE [t EXCEPT !.downloaded_result = get.value,
                   !.out = [NoReturn EXCEPT !.ret = get.value, !.requests = <<"GET">>]]

\* OutgoingTaskRequest.query_result on the object t
query_result(t) ==
    IF t.status # "finished" THEN [t EXCEPT !.out = Raise(<<>>)]
    ELSE [t EXCEPT !.out = [NoReturn EXCEPT !.ret = t.query_result]]

\* mutant: wait asking the daemon whatever the status
asks_daemon_always(status) == TRUE

\* wait: the status is not final, so the daemon is asked
asks_daemon(status) == status \notin {"finished", "error"}

\* OutgoingTaskRequest.wait(timeout_sec): x is the response to
\* waitForTaskResult if it is sent, get what _http_get_json does if it is
\* called
wait(x, get) ==
    LET asks == asks_daemon(task.status)
        sent == IF asks THEN <<"waitForTaskResult">> ELSE <<>>
        t == IF asks
             THEN [task EXCEPT !.status = x.status,
                               !.task_result_url = x.taskResultUrl,
                               !.error_message = x.errorMessage,
                               !.query_result = x.queryResult]
             ELSE task
        r == IF t.status = "error" THEN [t EXCEPT !.out = Raise(<<>>)]
             ELSE IF t.status = "finished"
             THEN IF t.task_function_type = "pure-calculation" THEN task_result(t, get)
                  ELSE IF t.task_function_type = "query" THEN query_result(t)
                  ELSE IF t.task_function_type = "action"
                  THEN [t EXCEPT !.out = [NoReturn EXCEPT !.ret = "True"]]
                  ELSE [t EXCEPT !.out = Raise(<<>>)]
             ELSE [t EXCEPT !.out = NoReturn]
    IN  /\ task.made
        /\ task' = IF asks /\ ~x.success
                   THEN [task EXCEPT !.out = Raise(sent)]
                   ELSE [r EXCEPT !.out.requests = sent \o @]
        /\ UNCHANGED <<daemonLog, daemonWriteable, appended, deleted, feed, snap, job,
                       subfeed, iter, naming, watch, last>>

\* ------------------------------------------------------------------ spec
\* The operations on the Subfeed objects S
SubfeedOps(S) ==
    \/ \E f \in {"live", "snap"}, s \in S, n \in Names, p \in 0..MaxPos :
            load_subfeed(f, s, n, p)
    \/ \E s \in S, p \in 0..MaxPos : set_position(s, p)
    \/ \E s \in S, ok \in BOOLEAN : get_num_local_messages(s, ok)
    \/ \E s \in S, k \in 0..MaxNum, adv \in BOOLEAN, ok \in BOOLEAN :
            get_next_messages(s, k, adv, ok)
    \/ \E s \in S, adv \in BOOLEAN, ok \in BOOLEAN : get_next_message(s, adv, ok)
    \/ \E s \in S, n \in 0..MaxBatch, ok \in BOOLEAN : append_messages(s, n, ok)

StreamOps ==
    \/ \E i \in IterIds, ok \in BOOLEAN : message_stream(Streamer, i, ok)
    \/ \E i \in IterIds, ok \in BOOLEAN : next_call(i, ok)
    \/ \E i \in IterIds, ok \in BOOLEAN : next_retry(i, ok)

SnapshotOps ==
    \/ \E l \in NameLists : create_snapshot_call(l)
    \/ \E ok \in BOOLEAN : create_snapshot_fetch(ok)
    \/ create_snapshot_store

OtherOps == \E n \in Names, k \in 1..MaxBatch : other_append_messages(n, k)

FeedOps == \E ok \in BOOLEAN : Feed_init(ok)

DeleteOps == \E ok \in BOOLEAN : delete(ok)

NamingOps ==
    \/ \E n \in FeedNames, create \in BOOLEAN, okCreate \in BOOLEAN, okInfo \in BOOLEAN,
          ok \in BOOLEAN : load_feed_name(n, create, okCreate, okInfo, ok)
    \/ \E k \in 1..MaxFeeds, create \in BOOLEAN, ok \in BOOLEAN : load_feed(k, create, ok)

UnnamingOps ==
    \/ \E n \in FeedNames, ok \in BOOLEAN : delete_feed_name(n, ok)
    \/ \E k \in 1..MaxFeeds, ok \in BOOLEAN : delete_feed(k, ok)

TaskOps ==
    \/ \E f \in TaskFunctionTypes, x \in Responses : request_task(f, x)
    \/ \E x \in Responses, get \in Gets : wait(x, get)

WatchOps ==
    \/ \E w \in WatchSpecs, wait_msec \in WaitMsecs, k \in 0..MaxNum : watch_call(w, wait_msec, k)
    \/ \E ok \in BOOLEAN : watch_return(ok)
    \/ watch_timeout

\* Everything: two Subfeed objects, the stream, snapshots, deletion, feed
\* names and watches.
Next ==
    \/ FeedOps \/ SubfeedOps(SubfeedIds) \/ StreamOps \/ SnapshotOps \/ OtherOps
    \/ DeleteOps \/ NamingOps \/ UnnamingOps \/ WatchOps \/ TaskOps

Spec == Init /\ [][Next]_vars

\* One Subfeed object, of the live feed or of a snapshot of it, with its stream,
\* while other processes append.
NextOne == FeedOps \/ SubfeedOps({Streamer}) \/ StreamOps \/ SnapshotOps \/ OtherOps

SpecOne == Init /\ [][NextOne]_vars

\* Two Subfeed objects of the live feed, one of them with its stream.
NextTwo == FeedOps \/ SubfeedOps(SubfeedIds) \/ StreamOps

SpecTwo == Init /\ [][NextTwo]_vars

\* One Subfeed object used by nothing but its stream, whose consumer keeps
\* calling __next__ and whose watches the daemon keeps answering, while other
\* processes append.
NextStream ==
    \/ FeedOps
    \/ \E f \in {"live", "snap"}, n \in Names, p \in 0..MaxPos :
            load_subfeed(f, Streamer, n, p)
    \/ StreamOps
    \/ SnapshotOps
    \/ OtherOps

SpecStream ==
    /\ Init
    /\ [][NextStream]_vars
    /\ WF_vars(\E i \in IterIds : next_call(i, TRUE) \/ next_retry(i, TRUE))

\* One Subfeed object and the snapshots of a feed whose writeability changes
\* at the daemon.
WriteableOps == \E w \in BOOLEAN : daemon_set_writeable(w)

NextInfo == FeedOps \/ SubfeedOps({Streamer}) \/ SnapshotOps \/ OtherOps \/ WriteableOps

SpecInfo == Init /\ [][NextInfo]_vars

\* Calls of _watch_for_new_messages, one at a time, while other processes
\* append or do not; a request the daemon does not hold is answered in the end.
NextWatch == WatchOps \/ OtherOps

SpecWatch ==
    /\ Init
    /\ [][NextWatch]_vars
    /\ WF_vars(watch_return(TRUE))

\* One Subfeed object of the live feed that is only fetched from, and calls of
\* _watch_for_new_messages, while other processes append.
NextFetch ==
    \/ FeedOps
    \/ \E n \in Names, p \in 0..MaxPos : load_subfeed("live", Streamer, n, p)
    \/ \E k \in 0..MaxNum, adv \in BOOLEAN, ok \in BOOLEAN :
            get_next_messages(Streamer, k, adv, ok)
    \/ \E adv \in BOOLEAN, ok \in BOOLEAN : get_next_message(Streamer, adv, ok)
    \/ WatchOps
    \/ OtherOps

SpecFetch == Init /\ [][NextFetch]_vars

\* One Subfeed object of the live feed, loaded at position 0, whose cursor is
\* moved by nothing but get_next_messages(advance_position=True) and the
\* __next__ of its stream, called in any order, while other processes append.
NextRace ==
    \/ FeedOps
    \/ \E n \in Names : load_subfeed("live", Streamer, n, 0)
    \/ \E k \in 0..MaxNum, ok \in BOOLEAN : get_next_messages(Streamer, k, TRUE, ok)
    \/ StreamOps
    \/ OtherOps

SpecRace == Init /\ [][NextRace]_vars

\* Feeds loaded by name and by URI, one call after the other.
SpecNaming == Init /\ [][NamingOps]_vars

\* Feeds loaded and deleted by name and by URI, one call after the other.
NextUnnaming == NamingOps \/ UnnamingOps

SpecUnnaming == Init /\ [][NextUnnaming]_vars

\* One OutgoingTaskRequest, made by request_task and waited on again and
\* again.
SpecTask == Init /\ [][TaskOps]_vars

\* One Subfeed object and the snapshots of a feed that is deleted at some
\* moment.
NextDelete == FeedOps \/ SubfeedOps({Streamer}) \/ SnapshotOps \/ OtherOps \/ DeleteOps

SpecDelete == Init /\ [][NextDelete]_vars

\* ------------------------------------------------------------ properties
Live(s) == subfeed[s].loaded /\ subfeed[s].feed = "live"
Frozen(s) == subfeed[s].loaded /\ subfeed[s].feed = "snap"
HashOf(s) == subfeed_hash(subfeed[s].name)
Min(a, b) == IF a < b THEN a ELSE b

\* C1: append_messages on a Subfeed whose Feed is not writeable (a live feed
\* for which getFeedInfo reported isWriteable = false, or a snapshot feed)
\* raises, sends no request to the daemon and leaves the daemon's log as it was.
C1_ReadOnlyAppendFailsBeforeNetwork ==
    [][\A s \in SubfeedIds, n \in 0..MaxBatch, ok \in BOOLEAN :
          (/\ append_messages(s, n, ok)
           /\ Frozen(s) \/ (Live(s) /\ ~daemonWriteable))
          => (last'.raised /\ last'.net = 0 /\ daemonLog' = daemonLog)]_vars

\* C1 witness: an append was refused without a request on a Subfeed of a
\* snapshot, while the daemon's log of that subfeed holds messages
C1_Witness ==
    /\ Frozen(Streamer)
    /\ last.raised /\ last.net = 0
    /\ daemonLog[HashOf(Streamer)] # <<>>

\* C2: on a writeable live feed, get_next_messages(max_num_messages=0,
\* advance_position=True) from position 0 returns the whole log of the subfeed,
\* in append order, and leaves position at the number of messages returned.
C2_FetchAllFromZero ==
    [][\A s \in SubfeedIds :
          (/\ get_next_messages(s, 0, TRUE, TRUE)
           /\ Live(s) /\ daemonWriteable
           /\ subfeed[s].position = 0)
          => (/\ last'.ret = daemonLog[HashOf(s)]
              /\ subfeed'[s].position = Len(daemonLog[HashOf(s)]))]_vars

\* C2 witness: messages 1 and 2 were appended and a fetch from position 0 has
\* returned both, in order, leaving position 2
C2_Witness ==
    /\ Live(Streamer) /\ daemonWriteable
    /\ daemonLog[HashOf(Streamer)] = <<1, 2>>
    /\ last.ret = <<1, 2>>
    /\ subfeed[Streamer].position = 2
    /\ subfeed[Streamer].moved = "fetch"

\* C3: once create_snapshot has returned, the snapshot Feed's message lists
\* are the same in every later state, whatever is appended to the live feed,
\* and a get_next_messages from position 0 on a Subfeed of the snapshot
\* returns, for a subfeed the snapshot was asked for, the messages the live
\* subfeed held when create_snapshot fetched it.
C3_SnapshotFrozen ==
    [][snap.made =>
          /\ snap'.snapshot_object = snap.snapshot_object
          /\ \A s \in SubfeedIds, adv \in BOOLEAN :
                (/\ get_next_messages(s, 0, adv, TRUE)
                 /\ Frozen(s)
                 /\ subfeed[s].position = 0
                 /\ HashOf(s) \in DOMAIN snap.snapshot_object.subfeeds)
                => last'.ret = snap.atFetch[HashOf(s)]]_vars

\* C3 witness: a Subfeed of the snapshot has returned the snapshot's messages
\* after more messages were appended to the live subfeed
C3_Witness ==
    /\ snap.made /\ Frozen(Streamer)
    /\ last.ret = <<1>>
    /\ daemonLog[HashOf(Streamer)] = <<1, 2>>

\* A step of get_next_messages, get_next_message or an iterator's __next__ on
\* Subfeed object s
FetchOrNext(s) ==
    \/ \E k \in 0..MaxNum, adv \in BOOLEAN, ok \in BOOLEAN : get_next_messages(s, k, adv, ok)
    \/ \E adv \in BOOLEAN, ok \in BOOLEAN : get_next_message(s, adv, ok)
    \/ \E i \in IterIds, ok \in BOOLEAN :
          iter[i].made /\ iter[i].parent = s /\ (next_call(i, ok) \/ next_retry(i, ok))

\* A step of any operation on Subfeed object s other than set_position
ReadOrAppend(s) ==
    \/ FetchOrNext(s)
    \/ \E ok \in BOOLEAN : get_num_local_messages(s, ok)
    \/ \E n \in 0..MaxBatch, ok \in BOOLEAN : append_messages(s, n, ok)
    \/ \E i \in IterIds, ok \in BOOLEAN : message_stream(s, i, ok)

\* The messages of log h from position on, at most k of them when k > 0
LogFrom(h, position, k) ==
    LET log == daemonLog[h]
        available == IF position < Len(log) THEN Len(log) - position ELSE 0
        n == IF k > 0 THEN Min(k, available) ELSE available
    IN  [j \in 1..n |-> log[position + j]]

\* C4 as claimed: in every state a loaded Subfeed's position is at most the
\* number of messages of its stream, and every change of position adds the
\* number of messages the operation returned -- over load_subfeed(position=),
\* set_position, get_next_messages, get_next_message and __next__.
C4_Original ==
    /\ [](\A s \in SubfeedIds :
            subfeed[s].loaded => subfeed[s].position <= StreamLen(subfeed[s]))
    /\ [][\A s \in SubfeedIds :
            (subfeed[s].loaded /\ subfeed'[s].position # subfeed[s].position)
            => subfeed'[s].position = subfeed[s].position + Len(last'.ret)]_vars

\* C4 amended: a Subfeed loaded at a position not beyond its stream's end,
\* whose cursor has since been moved only by get_next_messages /
\* get_next_message or only by the __next__ of one iterator (never by
\* set_position), on a feed that was not deleted, has a position of at most
\* the number of messages of its stream; and every change of position made by
\* get_next_messages, get_next_message or __next__ adds exactly the number of
\* messages that call returned.
C4_PositionWithinStream ==
    /\ [](\A s \in SubfeedIds :
            (subfeed[s].loaded /\ subfeed[s].moved # "free" /\ ~deleted)
            => subfeed[s].position <= StreamLen(subfeed[s]))
    /\ [][\A s \in SubfeedIds :
            (FetchOrNext(s) /\ subfeed'[s].position # subfeed[s].position)
            => subfeed'[s].position = subfeed[s].position + Len(last'.ret)]_vars

\* C4 witness: an iterator alone has moved the cursor to the end of a stream
\* of two messages, its last __next__ returning message 2
C4_Witness ==
    /\ subfeed[Streamer].loaded
    /\ subfeed[Streamer].moved = "iter"
    /\ subfeed[Streamer].position = 2
    /\ StreamLen(subfeed[Streamer]) = 2
    /\ last.ret = <<2>>

\* C5 as claimed: no step makes the position of a loaded Subfeed smaller.
C5_Original ==
    [][\A s \in SubfeedIds :
          subfeed[s].loaded => subfeed'[s].position >= subfeed[s].position]_vars

\* C5 amended: no step of get_next_messages, get_next_message, __next__,
\* message_stream, append_messages or get_num_local_messages makes the position
\* smaller (set_position sets it to whatever it is given).
C5_PositionMonotoneButSet ==
    [][\A s \in SubfeedIds :
          ReadOrAppend(s) => subfeed'[s].position >= subfeed[s].position]_vars

\* C5 witness: a fetch from position 1 has returned message 2 and moved the
\* cursor to 2
C5_Witness ==
    /\ subfeed[Streamer].loaded
    /\ subfeed[Streamer].moved = "fetch"
    /\ subfeed[Streamer].position = 2
    /\ last.ret = <<2>>

\* C6: no operation on one Subfeed object changes the position of another,
\* and get_next_messages on a Subfeed of the live feed returns the log's
\* messages from that object's own position, in append order.
C6_IndependentCursors ==
    [][\A a \in SubfeedIds : \A b \in SubfeedIds \ {a} :
          /\ ReadOrAppend(a) => subfeed'[b].position = subfeed[b].position
          /\ \A k \in 0..MaxNum, adv \in BOOLEAN :
                (get_next_messages(a, k, adv, TRUE) /\ Live(a))
                => last'.ret = LogFrom(HashOf(a), subfeed[a].position, k)]_vars

\* C6 witness: two Subfeed objects of the same subfeed, whose log is <<1, 2>>;
\* one has just fetched message 1 from position 0, the other stands at 2
C6_Witness ==
    /\ Live("A") /\ Live("B")
    /\ subfeed["A"].name = subfeed["B"].name
    /\ daemonLog[HashOf("A")] = <<1, 2>>
    /\ subfeed["A"].position = 1
    /\ subfeed["B"].position = 2
    /\ last.ret = <<1>>

\* C7: on a live Subfeed, get_next_messages(max_num_messages=k > 0,
\* advance_position=True) returns the first min(k, available) messages of the
\* log from the current position and advances position by that number.
C7_FetchAtMostK ==
    [][\A s \in SubfeedIds, k \in 1..MaxNum :
          (get_next_messages(s, k, TRUE, TRUE) /\ Live(s))
          => (/\ last'.ret = LogFrom(HashOf(s), subfeed[s].position, k)
              /\ Len(last'.ret) <= k
              /\ subfeed'[s].position = subfeed[s].position + Len(last'.ret))]_vars

\* C7 witness: with a log of two messages, a capped fetch has returned the
\* first one alone and left position 1
C7_Witness ==
    /\ Live(Streamer)
    /\ daemonLog[HashOf(Streamer)] = <<1, 2>>
    /\ last.ret = <<1>>
    /\ subfeed[Streamer].position = 1
    /\ subfeed[Streamer].moved = "fetch"

\* C9: __next__ signals end-of-sequence only for a Subfeed of a snapshot whose
\* buffer is exhausted; on a live feed a __next__ never signals it, and a pass
\* that finds the buffer exhausted and nothing new stays in the polling loop.
C9_EndOnlyOnSnapshot ==
    /\ [](last.eos =>
            \E i \in IterIds :
                /\ iter[i].made /\ Frozen(iter[i].parent)
                /\ iter[i].relative_position >= Len(iter[i].messages))
    /\ [][\A i \in IterIds, ok \in BOOLEAN :
            ((next_call(i, ok) \/ next_retry(i, ok)) /\ Live(iter[i].parent))
            => (/\ ~last'.eos
                /\ (~last'.raised /\ last'.ret = <<>>) => iter'[i].pc = "sleeping")]_vars

\* C9 witness: a __next__ on a live feed has polled, found nothing and is
\* asleep inside its loop
C9_Witness ==
    /\ Live(Streamer)
    /\ iter["i"].made /\ iter["i"].pc = "sleeping"
    /\ iter["i"].relative_position = 1

\* The messages iterator i has yielded so far, and the Subfeed it reads
Yielded(i) == SubSeq(iter[i].messages, 1, iter[i].relative_position)
Parent(i) == subfeed[iter[i].parent]

\* C8: a stream over a live Subfeed that nothing else uses has yielded, at
\* every moment, exactly the log from its starting position in append order
\* (nothing twice, nothing skipped), position counting them; and every
\* message appended at or after the starting position is eventually yielded.
C8_StreamYieldsLogInOrder ==
    /\ [](\A i \in IterIds :
            (iter[i].made /\ Live(iter[i].parent))
            => (/\ iter[i].relative_position <= Len(iter[i].messages)
                /\ iter[i].start + Len(Yielded(i))
                      <= Len(daemonLog[subfeed_hash(Parent(i).name)])
                   \/ Yielded(i) = <<>>
                /\ \A j \in 1..Len(Yielded(i)) :
                      Yielded(i)[j] = daemonLog[subfeed_hash(Parent(i).name)][iter[i].start + j]
                /\ Parent(i).position = iter[i].start + iter[i].relative_position))
    /\ \A i \in IterIds, n \in 1..MaxMsgs :
          (/\ iter[i].made /\ Live(iter[i].parent)
           /\ iter[i].start < n
           /\ Len(daemonLog[subfeed_hash(Parent(i).name)]) >= n)
          ~> (iter[i].start + iter[i].relative_position >= n)

\* C8 witness: the stream has yielded messages 1 and 2, the second one
\* fetched by a refill of the exhausted buffer
C8_Witness ==
    /\ Live(Streamer) /\ iter["i"].made
    /\ iter["i"].start = 0
    /\ iter["i"].relative_position = 2
    /\ iter["i"].messages = <<1, 2>>
    /\ last.ret = <<2>> /\ last.net = 1

\* C10: a stream over a snapshot Subfeed that nothing else uses, started at
\* position p, signals end-of-sequence after finitely many __next__ calls;
\* when it does it has yielded exactly the snapshot's messages from index p
\* on, in order; and a __next__ after everything was yielded signals
\* end-of-sequence and yields nothing.
C10_SnapshotStreamFinite ==
    /\ [](\A i \in IterIds :
            (iter[i].made /\ Frozen(iter[i].parent) /\ last.eos)
            => Yielded(i) = Slice(get_snapshot_messages(Parent(i)), iter[i].start,
                                  Len(get_snapshot_messages(Parent(i)))))
    /\ [][\A i \in IterIds :
            (/\ iter[i].made /\ Frozen(iter[i].parent)
             /\ iter[i].start + iter[i].relative_position
                   >= Len(get_snapshot_messages(Parent(i)))
             /\ next_call(i, TRUE))
            => (/\ last'.eos /\ last'.ret = <<>>
                /\ iter'[i].relative_position = iter[i].relative_position)]_vars
    /\ \A i \in IterIds : (iter[i].made /\ Frozen(iter[i].parent)) ~> last.eos

\* C10 witness: a stream over a snapshot of <<1, 2>>, started at position 1,
\* has yielded message 2 and then signalled end-of-sequence
C10_Witness ==
    /\ Frozen(Streamer) /\ iter["i"].made
    /\ get_snapshot_messages(subfeed[Streamer]) = <<1, 2>>
    /\ iter["i"].start = 1
    /\ Yielded("i") = <<2>>
    /\ last.eos

\* C11 as claimed: once a delete() on the live Feed object has succeeded, every
\* further operation on that Feed object fails: load_subfeed, create_snapshot
\* and delete raise, and so do get_next_messages, get_next_message and
\* append_messages on a Subfeed of it.
C11_Original ==
    [][deleted =>
          /\ \A s \in SubfeedIds, n \in Names, p \in 0..MaxPos :
                load_subfeed("live", s, n, p) => last'.raised
          /\ ~create_snapshot_store
          /\ \A ok \in BOOLEAN : delete(ok) => last'.raised
          /\ \A s \in SubfeedIds :
                (Live(s) /\ (FetchOrNext(s)
                             \/ \E n \in 0..MaxBatch, ok \in BOOLEAN : append_messages(s, n, ok)))
                => last'.raised]_vars

\* The number of times x occurs in seq
CountOf(seq, x) == Cardinality({j \in 1..Len(seq) : seq[j] = x})

C13_MissingNameFails ==
    [][\A n \in FeedNames, okCreate \in BOOLEAN, okInfo \in BOOLEAN, ok \in BOOLEAN :
          (load_feed_name(n, FALSE, okCreate, okInfo, ok) /\ naming.registry[n] = None)
          => (/\ naming'.out.raised
              /\ naming'.out.requests = <<>>
              /\ naming'.registry = naming.registry
              /\ naming'.feeds = naming.feeds)]_vars

\* C13 witness: with a feed recorded for name "b", a _load_feed of the
\* unrecorded name "a" has raised without a request
C13_Witness ==
    /\ naming.registry["a"] = None
    /\ naming.registry["b"] # None
    /\ naming.out.name = "a"
    /\ naming.out.raised
    /\ naming.out.requests = <<>>

\* C14: Feed.__init__ of a live feed sends one request, getFeedInfo; when the
\* response reports failure it raises and there is no Feed object; no later
\* step changes the Feed object, so is_writeable stays what that response
\* said whatever the daemon would say later; the operations on its Subfeeds
\* send their own request only (append_messages none at all when the kept
\* is_writeable is false), never a getFeedInfo; and making a snapshot Feed and
\* using its Subfeeds sends no request.
C14_WriteableResolvedOnce ==
    /\ [][\A ok \in BOOLEAN :
            Feed_init(ok)
            => (/\ last'.net = 1
                /\ ok => (feed'.made /\ feed'.is_writeable = daemonWriteable)
                /\ ~ok => (last'.raised /\ ~feed'.made))]_vars
    /\ [][feed.made => feed' = feed]_vars
    /\ [][\A s \in SubfeedIds :
            /\ ReadOrAppend(s) => last'.net <= 1
            /\ \A n \in 0..MaxBatch, ok \in BOOLEAN :
                  (append_messages(s, n, ok) /\ Live(s))
                  => last'.net = IF feed.is_writeable THEN 1 ELSE 0
            /\ (ReadOrAppend(s) /\ Frozen(s)) => last'.net = 0]_vars
    /\ [][create_snapshot_store => last'.net = 0]_vars

\* C14 witness: the Feed was constructed while the daemon reported
\* isWriteable = false; the daemon reports true now, and an append_messages on
\* a Subfeed of the Feed has raised without a request
C14_Witness ==
    /\ feed.made /\ ~feed.is_writeable
    /\ daemonWriteable
    /\ Live(Streamer)
    /\ last.raised /\ last.net = 0

\* The messages of the stream a Subfeed reads
StreamOf(sf) ==
    IF sf.feed = "snap" THEN get_snapshot_messages(sf) ELSE daemonLog[subfeed_hash(sf.name)]

\* C15: a get_next_message that the daemon answers (or that reads a snapshot)
\* never raises; when the stream holds a message at the Subfeed's position it
\* returns that message, having fetched it alone, and leaves position one
\* higher if advance_position and unchanged if not; when it holds none it
\* returns None and leaves position unchanged.
C15_FetchOne ==
    [][\A s \in SubfeedIds, adv \in BOOLEAN :
          get_next_message(s, adv, TRUE)
          => LET sf == subfeed[s]
                 stream == StreamOf(sf)
             IN  /\ ~last'.raised
                 /\ sf.position < Len(stream)
                       => (/\ last'.one = [is_none |-> FALSE,
                                           message |-> stream[sf.position + 1]]
                           /\ last'.ret = <<stream[sf.position + 1]>>
                           /\ subfeed'[s].position
                                 = IF adv THEN sf.position + 1 ELSE sf.position)
                 /\ sf.position >= Len(stream)
                       => (/\ last'.one = NoMessage
                           /\ subfeed'[s].position = sf.position)]_vars

\* C15 witness: with messages 1 and 2 in the live log, a get_next_message at
\* position 0 has returned message 1 and left position 1
C15_Witness ==
    /\ Live(Streamer)
    /\ daemonLog[HashOf(Streamer)] = <<1, 2>>
    /\ last.one = [is_none |-> FALSE, message |-> 1]
    /\ subfeed[Streamer].position = 1
    /\ subfeed[Streamer].moved = "fetch"

\* C16: a _watch_for_new_messages(wait_msec=0) is never held by the daemon:
\* from the moment its request is sent the response can arrive, with no append
\* and no timeout before it, also for an empty subfeed_watches and when no
\* watch has a new message; it returns what the logs hold at that moment; and
\* it does return, whether or not anything is appended later.
C16_ZeroWaitReturns ==
    /\ []((watch.pc = "sent" /\ watch.wait_msec = 0)
            => (ENABLED watch_return(TRUE) /\ ~watch.elapsed))
    /\ [][(watch_return(TRUE) /\ watch.wait_msec = 0)
            => (/\ ~watch'.out.raised
                /\ watch'.out.messages = DaemonWatchAnswer
                /\ \A key \in DOMAIN watch.request.subfeedWatches :
                      LET w == watch.request.subfeedWatches[key]
                          new == LogFrom(w.subfeedHash, w.position,
                                         watch.request.maxNumMessages)
                      IN  IF new = <<>> THEN key \notin DOMAIN watch'.out.messages
                          ELSE /\ key \in DOMAIN watch'.out.messages
                               /\ watch'.out.messages[key] = new)]_vars
    /\ (watch.pc = "sent" /\ watch.wait_msec = 0) ~> (watch.pc = "idle")

\* C16 witness: a call with wait_msec=0 and one watch at position 1 of a
\* subfeed that holds one message has returned, with no messages
C16_Witness ==
    /\ watch.pc = "idle"
    /\ watch.wait_msec = 0
    /\ DOMAIN watch.request.subfeedWatches = {"w1"}
    /\ watch.request.subfeedWatches["w1"].position = 1
    /\ Len(daemonLog[watch.request.subfeedWatches["w1"].subfeedHash]) = 1
    /\ DOMAIN watch.out.messages = {}
    /\ ~watch.out.raised

\* C17: each pass of create_snapshot's loop stores, under the hash of the name
\* it is at, the whole log of that live subfeed as it is at that moment; the
\* snapshot Feed it returns holds exactly the entries the loop stored, and a
\* Subfeed of that name loaded from it reads that list back from position 0;
\* no step of create_snapshot changes the daemon's logs, a Subfeed object or
\* an iterator.
C17_SnapshotContent ==
    /\ [][\A ok \in BOOLEAN :
            create_snapshot_fetch(ok)
            => LET h == subfeed_hash(Head(job.todo))
               IN  /\ ok => (/\ job'.todo = Tail(job.todo)
                             /\ DOMAIN job'.subfeeds = DOMAIN job.subfeeds \cup {h}
                             /\ job'.subfeeds[h] = [subfeedHash |-> h, messages |-> daemonLog[h]]
                             /\ \A g \in DOMAIN job.subfeeds \ {h} :
                                   job'.subfeeds[g] = job.subfeeds[g])
                   /\ ~ok => (last'.raised /\ ~job'.active /\ snap' = snap)]_vars
    /\ [][create_snapshot_store
            => (snap'.made /\ snap'.snapshot_object.subfeeds = job.subfeeds)]_vars
    /\ [][(\/ \E l \in NameLists : create_snapshot_call(l)
            \/ \E ok \in BOOLEAN : create_snapshot_fetch(ok)
            \/ create_snapshot_store)
           => (daemonLog' = daemonLog /\ subfeed' = subfeed /\ iter' = iter)]_vars
    /\ [](snap.made =>
            \A n \in Names :
                LET sf == NewSubfeed("snap", n, 0)
                    h == subfeed_hash(n)
                IN  IF h \in DOMAIN snap.snapshot_object.subfeeds
                    THEN /\ snap.snapshot_object.subfeeds[h]
                              = [subfeedHash |-> h, messages |-> snap.atFetch[h]]
                         /\ next_messages(sf, 0) = snap.atFetch[h]
                    ELSE next_messages(sf, 0) = <<>>)

\* C17 witness: a snapshot of a subfeed that held messages 1 and 2 when it was
\* fetched; a Subfeed loaded from the snapshot at position 0 has read both back
C17_Witness ==
    /\ snap.made /\ Frozen(Streamer)
    /\ HashOf(Streamer) \in DOMAIN snap.snapshot_object.subfeeds
    /\ snap.atFetch[HashOf(Streamer)] = <<1, 2>>
    /\ last.ret = <<1, 2>>
    /\ subfeed[Streamer].position = 2

\* C18: append_messages, whether it succeeds, is refused by the daemon or is
\* refused locally, leaves every Subfeed object as it was (the appending one's
\* position included) and returns no message; when it succeeds the messages are
\* at the end of the daemon's log, where a fetch from the unchanged position
\* (a position within the log) finds them after what it would have found
\* before.
C18_AppendKeepsCursor ==
    [][\A s \in SubfeedIds, n \in 0..MaxBatch, ok \in BOOLEAN :
          append_messages(s, n, ok)
          => (/\ subfeed' = subfeed
              /\ last'.ret = <<>>
              /\ ~last'.raised
                    => (/\ daemonLog'[HashOf(s)] = daemonLog[HashOf(s)] \o NewMessages(n)
                        /\ subfeed[s].position <= Len(daemonLog[HashOf(s)])
                              => LogFrom(HashOf(s), subfeed[s].position, 0) \o NewMessages(n)
                                    = next_messages(subfeed[s], 0)')
              /\ last'.raised => daemonLog' = daemonLog)]_vars

\* C18 witness: the only Subfeed object, having fetched message 1, stands at
\* position 1 right after an append, with messages 1 and 2 in the log
C18_Witness ==
    /\ Live("A") /\ ~subfeed["B"].loaded
    /\ daemonLog[HashOf("A")] = <<1, 2>>
    /\ subfeed["A"].position = 1
    /\ last.net = 1 /\ ~last.raised
    /\ last.ret = <<>> /\ last.num = 0

\* C19: a __next__ that yields a message leaves the Subfeed's position and the
\* iterator's relative position exactly one higher, also when it had to
\* refill the buffer first; a __next__ pass that yields nothing (an empty
\* refill, StopIteration, a refused watch) and the first load in
\* message_stream leave position unchanged; so for a Subfeed used by its
\* stream alone, live or snapshot, position is the stream's starting position
\* plus the number of messages yielded.
C19_StreamPosition ==
    /\ [][\A i \in IterIds, ok \in BOOLEAN :
            (next_call(i, ok) \/ next_retry(i, ok))
            => LET s == iter[i].parent
               IN  IF last'.ret # <<>>
                   THEN /\ Len(last'.ret) = 1
                        /\ subfeed'[s].position = subfeed[s].position + 1
                        /\ iter'[i].relative_position = iter[i].relative_position + 1
                   ELSE /\ subfeed'[s].position = subfeed[s].position
                        /\ iter'[i].relative_position = iter[i].relative_position]_vars
    /\ [][\A s \in SubfeedIds, i \in IterIds, ok \in BOOLEAN :
            message_stream(s, i, ok)
            => (/\ subfeed'[s].position = subfeed[s].position
                /\ ok => (iter'[i].start = subfeed[s].position
                          /\ iter'[i].relative_position = 0))]_vars
    /\ [](\A i \in IterIds :
            iter[i].made
            => (/\ Parent(i).position = iter[i].start + iter[i].relative_position
                /\ Len(Yielded(i)) = iter[i].relative_position))

\* C19 witness: a stream started at position 1 of a live subfeed found its
\* buffer empty, refilled it and yielded message 2, leaving position 2
C19_Witness ==
    /\ Live(Streamer) /\ iter["i"].made
    /\ iter["i"].start = 1
    /\ iter["i"].relative_position = 1
    /\ subfeed[Streamer].position = 2
    /\ last.ret = <<2>> /\ last.net = 1

\* C20: when the watchForNewMessages response is not marked successful,
\* _watch_for_new_messages raises, and so do the get_next_messages and the
\* get_next_message that sent the request, which leave every Subfeed object as
\* it was; a fetch on a live feed that does not raise has the daemon's answer.
C20_WatchFailureRaises ==
    /\ [][watch_return(FALSE) => (watch'.out.raised /\ watch'.pc = "idle")]_vars
    /\ [][\A s \in SubfeedIds, adv \in BOOLEAN :
            /\ \A k \in 0..MaxNum :
                  get_next_messages(s, k, adv, FALSE)
                  => (last'.raised /\ last'.net = 1 /\ subfeed' = subfeed)
            /\ get_next_message(s, adv, FALSE)
                  => (last'.raised /\ last'.net = 1 /\ subfeed' = subfeed)
            /\ \A k \in 0..MaxNum, ok \in BOOLEAN :
                  (get_next_messages(s, k, adv, ok) /\ Live(s) /\ ~last'.raised)
                  => last'.ret = LogFrom(HashOf(s), subfeed[s].position, k)]_vars

\* C20 witness: with message 1 in the log and the Subfeed at position 0, a
\* fetch whose watch the daemon refused has raised and the position is still 0
C20_Witness ==
    /\ Live(Streamer)
    /\ daemonLog[HashOf(Streamer)] = <<1>>
    /\ subfeed[Streamer].position = 0
    /\ last.raised /\ last.net = 1

\* C21: on a Subfeed of a snapshot Feed, get_next_messages returns the
\* messages of the snapshot's list from position on, min(max_num_messages,
\* remaining) of them when max_num_messages > 0 and all that remain when it is
\* 0, and moves position by that number if advance_position and not at all
\* otherwise; get_num_local_messages returns the length of the list; and no
\* operation on such a Subfeed (get_next_messages, get_next_message,
\* message_stream, __next__, get_num_local_messages, append_messages) sends a
\* request or changes the daemon's logs.
C21_SnapshotFetch ==
    /\ [][\A s \in SubfeedIds, k \in 0..MaxNum, adv \in BOOLEAN :
            (get_next_messages(s, k, adv, TRUE) /\ Frozen(s))
            => LET messages == get_snapshot_messages(subfeed[s])
                   position == subfeed[s].position
                   remaining == IF position < Len(messages)
                                THEN Len(messages) - position ELSE 0
                   n == IF k > 0 THEN Min(k, remaining) ELSE remaining
               IN  /\ last'.ret = [j \in 1..n |-> messages[position + j]]
                   /\ subfeed'[s].position = IF adv THEN position + n ELSE position
                   /\ ~last'.raised]_vars
    /\ [][\A s \in SubfeedIds :
            (get_num_local_messages(s, TRUE) /\ Frozen(s))
            => last'.num = Len(get_snapshot_messages(subfeed[s]))]_vars
    /\ [][\A s \in SubfeedIds :
            (ReadOrAppend(s) /\ Frozen(s))
            => (last'.net = 0 /\ daemonLog' = daemonLog)]_vars

\* C21 witness: from a snapshot holding messages 1 and 2, a get_next_messages
\* capped at one message has returned message 1 alone, without a request, and
\* left position 1
C21_Witness ==
    /\ Frozen(Streamer)
    /\ get_snapshot_messages(subfeed[Streamer]) = <<1, 2>>
    /\ last.ret = <<1>> /\ last.one = NoMessage
    /\ last.net = 0
    /\ subfeed[Streamer].position = 1
    /\ subfeed[Streamer].moved = "fetch"

\* Subfeed object s is of the snapshot Feed and its hash is no key of the
\* snapshot's subfeeds
Absent(s) == Frozen(s) /\ HashOf(s) \notin DOMAIN snap.snapshot_object.subfeeds

\* C22: on a Subfeed of a snapshot Feed whose hash the snapshot does not hold,
\* nothing raises: get_next_messages returns an empty list, get_next_message
\* None and get_num_local_messages 0, message_stream makes an iterator with an
\* empty buffer whose __next__ signals end-of-sequence at once, and all of
\* them leave position as it was.
C22_AbsentSubfeedIsEmpty ==
    [][\A s \in SubfeedIds :
          Absent(s)
          => /\ \A k \in 0..MaxNum, adv \in BOOLEAN :
                   get_next_messages(s, k, adv, TRUE)
                   => (last'.ret = <<>> /\ ~last'.raised /\ subfeed' = subfeed)
             /\ \A adv \in BOOLEAN :
                   get_next_message(s, adv, TRUE)
                   => (last'.one = NoMessage /\ ~last'.raised /\ subfeed' = subfeed)
             /\ get_num_local_messages(s, TRUE) => (last'.num = 0 /\ ~last'.raised)
             /\ \A i \in IterIds :
                   /\ message_stream(s, i, TRUE)
                         => (/\ ~last'.raised /\ subfeed' = subfeed
                             /\ iter'[i].made /\ iter'[i].messages = <<>>)
                   /\ (iter[i].made /\ iter[i].parent = s /\ next_call(i, TRUE))
                         => (/\ last'.eos /\ last'.ret = <<>> /\ ~last'.raised
                             /\ subfeed' = subfeed
                             /\ iter'[i].relative_position = 0)]_vars

\* C22 witness: the snapshot holds another subfeed only; the live subfeed of
\* this Subfeed's name has a message; a stream over the Subfeed, loaded at
\* position 0, has ended on its first __next__
C22_Witness ==
    /\ Absent(Streamer)
    /\ DOMAIN snap.snapshot_object.subfeeds # {}
    /\ daemonLog[HashOf(Streamer)] # <<>>
    /\ iter["i"].made /\ iter["i"].relative_position = 0
    /\ last.eos
    /\ subfeed[Streamer].position = 0

\* C23 as claimed: while get_next_messages(advance_position=True) and the
\* __next__ of a stream are called in any order on one Subfeed object loaded
\* at position 0, the position never exceeds the length of the log, and every
\* call that hands out messages hands out the ones right after the cursor and
\* moves the cursor past them -- so that no message is handed out twice and
\* the position counts the distinct messages handed out.
C23_Original ==
    /\ [](\A s \in SubfeedIds :
            (subfeed[s].loaded /\ Live(s))
            => subfeed[s].position <= Len(daemonLog[HashOf(s)]))
    /\ [][\A s \in SubfeedIds :
            (/\ Live(s)
             /\ \/ \E k \in 0..MaxNum : get_next_messages(s, k, TRUE, TRUE)
                \/ \E i \in IterIds : iter[i].made /\ iter[i].parent = s /\ next_call(i, TRUE)
             /\ last'.ret # <<>>)
            => /\ last'.ret = LogFrom(HashOf(s), subfeed[s].position, Len(last'.ret))
               /\ subfeed'[s].position = subfeed[s].position + Len(last'.ret)]_vars

\* a is a prefix of b
IsPrefix(a, b) == Len(a) <= Len(b) /\ \A j \in 1..Len(a) : a[j] = b[j]

\* C24: while other processes and the feed's own Subfeed append and
\* create_snapshot fetches its names one after the other, every message list
\* captured so far by the running create_snapshot, and every message list of
\* the snapshot it has stored, is in every state a prefix of the live log of
\* its subfeed hash: it holds appended messages only, in the log's order from
\* its first message on.
C24_CapturedIsPrefix ==
    /\ [](\A h \in DOMAIN job.subfeeds :
            IsPrefix(job.subfeeds[h].messages, daemonLog[h]))
    /\ [](snap.made =>
            \A h \in DOMAIN snap.snapshot_object.subfeeds :
                IsPrefix(snap.snapshot_object.subfeeds[h].messages, daemonLog[h]))

\* C24 witness: a stored snapshot of two subfeeds; the first was captured
\* empty, then message 1 was appended to it and message 2 to the second, which
\* was captured with message 2
C24_Witness ==
    /\ snap.made
    /\ \E g, h \in DOMAIN snap.snapshot_object.subfeeds :
          /\ g # h
          /\ snap.snapshot_object.subfeeds[g].messages = <<>>
          /\ daemonLog[g] = <<1>>
          /\ snap.snapshot_object.subfeeds[h].messages = <<2>>

\* C25: _delete_feed, by name or by feed:// URI, whatever the daemon answers,
\* leaves the registry as it was; no step replaces or removes a feed id the
\* registry holds for a name; so a _load_feed of a name whose feed the daemon
\* has deleted, with create=True or create=False, sends no createFeed: it
\* does what _load_feed('feed://' + feed_id) does with the feed id recorded
\* before the deletion, a getFeedInfo for that feed, and returns that feed id
\* when it returns.
C25_DeleteKeepsRegistry ==
    /\ [][\A n \in FeedNames, ok \in BOOLEAN :
            delete_feed_name(n, ok)
            => (/\ naming'.registry = naming.registry
                /\ naming'.feeds = naming.feeds
                /\ CountOf(naming'.out.requests, "deleteFeed")
                      = IF naming.registry[n] = None THEN 0 ELSE 1)]_vars
    /\ [][\A k \in 1..MaxFeeds, ok \in BOOLEAN :
            delete_feed(k, ok)
            => (naming'.registry = naming.registry /\ naming'.feeds = naming.feeds)]_vars
    /\ [][\A n \in FeedNames :
            naming.registry[n] \in naming.gone
            => naming'.registry[n] = naming.registry[n]]_vars
    /\ [][\A n \in FeedNames, create \in BOOLEAN, okCreate \in BOOLEAN, okInfo \in BOOLEAN,
             ok \in BOOLEAN :
            (load_feed_name(n, create, okCreate, okInfo, ok)
                /\ naming.registry[n] \in naming.gone)
            => (/\ naming'.out.requests = <<"getFeedInfo">>
                /\ naming'.out = [load_feed_uri(naming.registry[n], FALSE, ok)
                                    EXCEPT !.name = n]
                /\ ~naming'.out.raised => naming'.out.feed_id = naming.registry[n]
                /\ naming'.registry = naming.registry
                /\ naming'.feeds = naming.feeds)]_vars

\* C25 witness: feed 1 was created under the name "a" and deleted by the
\* daemon; a later _load_feed("a") has sent getFeedInfo only, with the registry
\* still holding feed 1 for "a" and one feed created in all
C25_Witness ==
    /\ naming.registry["a"] = FeedIdOf(1)
    /\ FeedIdOf(1) \in naming.gone
    /\ naming.feeds = 1
    /\ naming.creates["a"] = 1
    /\ naming.out.name = "a"
    /\ naming.out.requests = <<"getFeedInfo">>

\* The four fields wait() assigns from the response
TaskFields(t) == <<t.status, t.task_result_url, t.error_message, t.query_result>>

\* C26 as claimed: a wait() on a status that is 'finished' or 'error' sends no
\* waitForTaskResult and leaves status, task_result_url, error_message and
\* query_result as they were; a wait() that leaves the status at 'error' has
\* raised; a wait() that returned a value other than None has left the status
\* at 'finished'; a wait() that leaves any other status has returned None.
C26_Original ==
    [][\A x \in Responses, get \in Gets :
          wait(x, get)
          => (/\ task.status \in {"finished", "error"}
                    => (/\ CountOf(task'.out.requests, "waitForTaskResult") = 0
                        /\ TaskFields(task') = TaskFields(task))
              /\ task'.status = "error" => task'.out.raised
              /\ (~task'.out.raised /\ task'.out.ret # NoneStr)
                    => task'.status = "finished"
              /\ task'.status \notin {"finished", "error"}
                    => (~task'.out.raised /\ task'.out.ret = NoneStr))]_vars

\* C26 amended: a wait() on a status that is 'finished' or 'error' sends no
\* waitForTaskResult and leaves status, task_result_url, error_message and
\* query_result as they were, and no other step changes them either; a wait()
\* on any other status sends one waitForTaskResult, and when the response
\* reports failure it raises and leaves the four fields as they were; a
\* wait() that leaves the status at 'error' has raised; a wait() that
\* returned a value other than None has left the status at 'finished'; a
\* wait() that leaves any other status has returned None if the response
\* reported success, and has raised if it reported failure.
C26_FinalStatusesAbsorbing ==
    /\ [][(task.made /\ task.status \in {"finished", "error"})
            => TaskFields(task') = TaskFields(task)]_vars
    /\ [][\A x \in Responses, get \in Gets :
            wait(x, get)
            => (/\ CountOf(task'.out.requests, "waitForTaskResult")
                      = IF task.status \in {"finished", "error"} THEN 0 ELSE 1
                /\ (task.status \notin {"finished", "error"} /\ ~x.success)
                      => (task'.out.raised /\ TaskFields(task') = TaskFields(task))
                /\ task'.status = "error" => task'.out.raised
                /\ (~task'.out.raised /\ task'.out.ret # NoneStr)
                      => task'.status = "finished"
                /\ task'.status \notin {"finished", "error"}
                      => IF x.success
                         THEN ~task'.out.raised /\ task'.out.ret = NoneStr
                         ELSE task'.out.raised)]_vars

\* C26 witness: a pure-calculation task that is finished, whose result was
\* downloaded by an earlier wait(); a later wait() has returned it without
\* any request
C26_Witness ==
    /\ task.made
    /\ task.status = "finished"
    /\ task.task_function_type = "pure-calculation"
    /\ task.downloaded_result = "r"
    /\ task.out = [NoReturn EXCEPT !.ret = "r"]

====
